---- MODULE Spec2Model ----
(***************************************************************************)
(* Model of the incentive scorer: the scoring adapter                      *)
(* (IncentiveScorer.score, src/incentive_scorer.py), text extraction       *)
(* (convert_file_to_text), score_file, the command line (main) and the     *)
(* web batch orchestration (src/app.py).                                   *)
(***************************************************************************)
EXTENDS Integers, Sequences, FiniteSets, TLC

(* ------------------------------ bounds --------------------------------- *)

\* number of score() calls made on the adapter instance in one behaviour
MaxCalls == 3

\* number of files in the batch uploaded
MaxFiles == 3

\* seconds the clock advances during the batch
MaxClock == 1

(* ------------------------------ values --------------------------------- *)

\* callers of the shared adapter instance (request handlers)
Procs == {1, 2}

\* the handler of the single-threaded server
Caller == 1

\* the other of the two content tags the adapter knows (lines 429, 479, 483)
OtherTag(t) == IF t = "input_text" THEN "text" ELSE "input_text"

\* the model name the web application configures (app.py:25)
Model == "gpt-5-nano"

\* scoring payloads handed to score() directly
Payloads ==
  {[file_id |-> "f1", normalized_text |-> "Costco receipt",
    batch_context |-> [total_files_in_batch |-> 25, file_position |-> 3]],
   [file_id |-> "f2", normalized_text |-> "Had a productive day",
    batch_context |-> [total_files_in_batch |-> 1, file_position |-> 1]]}

\* an optional argument: None, or a value
None == [none |-> TRUE]

Some(v) == [none |-> FALSE, v |-> v]

\* the numbers a payload carries
Numbers == 0..25

\* JSON text of a string and of a number (json.dumps, line 445)
JStr(s) == [json |-> "string", text |-> s]

JNum(n) == [json |-> "number", text |-> ToString(n)]

\* json.dumps(payload, ensure_ascii=False), line 445: the strings quoted,
\* the numbers of batch_context written in digits
json_dumps(payload) ==
  [k \in DOMAIN payload |->
     IF k = "batch_context"
       THEN [j \in DOMAIN payload[k] |-> JNum(payload[k][j])]
       ELSE JStr(payload[k])]

\* json.loads on such a text (the endpoint's reading of the user message)
json_loads(text) ==
  [k \in DOMAIN text |->
     IF k = "batch_context"
       THEN [j \in DOMAIN text[k] |->
               CHOOSE n \in Numbers : ToString(n) = text[k][j].text]
       ELSE text[k].text]

\* An exception, by the features the handlers of score() look at:
\*   cls              the exception class
\*   rf               "response_format" in str(exc)
\*   path             "input[0].content[0].type" in str(exc).lower()
\*   q_input_text     "'input_text'" in str(exc).lower()
\*   q_text           "'text'" in str(exc).lower()
\*   msg              what the exception says otherwise
NoExc ==
  [cls |-> "none", rf |-> FALSE, path |-> FALSE, q_input_text |-> FALSE,
   q_text |-> FALSE, msg |-> "none"]

\* everything responses.create can raise: a TypeError of the SDK call, or an
\* error of the API / the transport
EndpointErrors ==
  [cls : {"TypeError", "APIError"}, rf : BOOLEAN, path : BOOLEAN,
   q_input_text : BOOLEAN, q_text : BOOLEAN, msg : {"endpoint"}]

LocalError(cls, msg) ==
  [cls |-> cls, rf |-> FALSE, path |-> FALSE, q_input_text |-> FALSE,
   q_text |-> FALSE, msg |-> msg]

\* keys of the response object
RequiredKeys == {"schema_version", "points", "band", "reason", "encouragement"}

AllKeys == RequiredKeys \cup {"tip"}

\* JSON values, written with their type: "int:75" is the number 75,
\* "str:75" the string "75", "null" is null
ValuesOf(k) ==
  CASE k = "schema_version" -> {"str:1.4"}
    [] k = "points" -> {"int:75", "str:75", "str:abc", "null"}
    [] k = "band" -> {"str:premium"}
    [] k = "reason" -> {"str:reason"}
    [] k = "encouragement" -> {"str:well done"}
    [] k = "tip" -> {"null", "str:add dates"}

\* the key sets of the response objects the endpoint may return: complete,
\* one key missing, or points and band missing
KeySets ==
  {AllKeys} \cup {AllKeys \ {k} : k \in AllKeys}
    \cup {AllKeys \ {"points", "band"}}

ObjectsOver(ks) == {f \in [ks -> UNION {ValuesOf(k) : k \in ks}] :
                      \A k \in ks : f[k] \in ValuesOf(k)}

Objects == UNION {ObjectsOver(ks) : ks \in KeySets}

EmptyObj == [k \in {} |-> "null"]

\* A text: empty, not JSON at all, JSON that is not an object (a list, a
\* number, a string, null), or a JSON object
NoText == [kind |-> "empty", obj |-> EmptyObj]

Texts ==
  {[kind |-> "nonjson", obj |-> EmptyObj], [kind |-> "nonobject", obj |-> EmptyObj]}
    \cup {[kind |-> "object", obj |-> o] : o \in Objects}

\* A response of the endpoint: the consolidated output_text field, and the
\* text of the output_text content blocks (older SDKs)
Responses ==
  {[output_text |-> t, output |-> NoText] : t \in Texts}
    \cup {[output_text |-> NoText, output |-> t] : t \in Texts \cup {NoText}}

NoResponse == [output_text |-> NoText, output |-> NoText]

\* the fixed canned JSON a simulated endpoint answers with
Canned ==
  [output_text |->
     [kind |-> "object",
      obj |-> [schema_version |-> "str:1.4", points |-> "int:75",
               band |-> "str:premium", reason |-> "str:reason",
               encouragement |-> "str:well done", tip |-> "null"]],
   output |-> NoText]

\* the ScoredOutput dataclass; NoResult when score() returned nothing
NoResult == [k \in {} |-> "null"]

VARIABLES
  endpoint,       \* how the remote endpoint treats the two tags
  client,         \* IncentiveScorer.client: "none" until one is there
  content_type,   \* IncentiveScorer._content_type, the tag believed correct
  pc,             \* per caller: where its score() call stands
  callNo,         \* per caller: the number of its current call on the instance
  payload,        \* per caller: the payload its score() call was given
  request,        \* per caller: request_payload, the request built
  subs,           \* per caller: the submissions its current call has made
  exc,            \* per caller: the exception caught or propagated
  response,       \* per caller: the response of the accepted submission
  result,         \* per caller: the ScoredOutput returned
  calls,          \* score() calls started on the instance
  lastOkTag,      \* tag of the most recent accepted submission
  env,            \* which optional packages are installed
  xpc,            \* where convert_file_to_text stands
  xfile,          \* file_path of the extraction
  actual_file_path,  \* 0 the original file, else a temporary file
  temp_files_to_cleanup,  \* the temporary files listed for removal
  tmpfiles,       \* the temporary files on disk
  created,        \* the temporary files the current extraction created
  xtext,          \* the text the extraction returned
  xexc,           \* the exception the extraction raised
  fpc,            \* where score_file stands
  bpc,            \* where batch_upload stands
  nfiles,         \* len(files)
  idx,            \* files the loop has taken
  cur,            \* the file being processed
  fate,           \* per file taken: its name and what became of it
  results,        \* results
  errors,         \* errors
  reply,          \* the JSON reply of batch_upload
  uploads,        \* files in UPLOAD_FOLDER
  examples,       \* files in EXAMPLES_FOLDER
  outputs,        \* files in OUTPUT_FOLDER
  clock,          \* the last value read from int(time.time())
  cpc,            \* where main stands
  args,           \* the command line parsed, and the input file it names
  is_json_payload,  \* main's flag: the input was scored as a payload
  out             \* what main printed, saved and exited with

adapterVars ==
  <<endpoint, client, content_type, pc, callNo, payload, request, subs, exc, response,
    result, calls, lastOkTag>>

extractVars ==
  <<env, xpc, xfile, actual_file_path, temp_files_to_cleanup, tmpfiles, created,
    xtext, xexc>>

appVars ==
  <<fpc, bpc, nfiles, idx, cur, fate, results, errors, reply, uploads, examples,
    outputs, clock>>

cliVars == <<cpc, args, is_json_payload, out>>

vars == <<adapterVars, extractVars, appVars, cliVars>>

(* ----------------------------- the adapter ----------------------------- *)

\* IncentiveScorer._build_input: the two messages, both tagged with the
\* belief of the moment
_build_input(belief, given) ==
  <<[role |-> "system", type |-> belief, text |-> "SYSTEM_SPEC"],
    [role |-> "user", type |-> belief, text |-> json_dumps(given)]>>

NoRequest == [model |-> "none", input |-> <<>>]

NoPayload == [k \in {} |-> ""]

Submission(req, hint, outcome) ==
  [model |-> req.model, input |-> req.input, hint |-> hint, outcome |-> outcome]

TagOf(sub) == sub.input[1].type

\* what responses.create may answer to a request
Outcomes(req) ==
  IF endpoint = "any"
    THEN EndpointErrors \cup {NoExc}
  ELSE IF endpoint \in {"flaky", "unreliable"}
    THEN {NoExc,
          [cls |-> "APIError", rf |-> FALSE, path |-> FALSE, q_input_text |-> FALSE,
           q_text |-> FALSE, msg |-> "endpoint"],
          [cls |-> "APIError", rf |-> FALSE, path |-> TRUE,
           q_input_text |-> req.input[1].type = "input_text",
           q_text |-> req.input[1].type = "text", msg |-> "endpoint"]}
    ELSE IF (endpoint = "rejects_input_text" /\ req.input[1].type = "input_text")
            \/ (endpoint = "rejects_text" /\ req.input[1].type = "text")
           THEN {e \in EndpointErrors :
                   /\ e.cls = "APIError" /\ e.path /\ ~e.rf
                   /\ (req.input[1].type = "input_text" => e.q_input_text)
                   /\ (req.input[1].type = "text" => e.q_text)}
           ELSE {NoExc}

\* what an accepted submission is answered with
ResponsesOf(req) ==
  IF endpoint \in {"any", "unreliable"} THEN Responses
  ELSE IF endpoint = "flaky" THEN {Canned}
  ELSE {Canned}

Idle(p) == pc[p] \in {"idle", "returned", "raised"}

\* no file at hand: the arguments of score_file at their defaults
NoFile == [name |-> "", dir |-> "", filename |-> "", file_id |-> None, batch_context |-> None]

NoReply == [success |-> 0, failed |-> 0, status |-> 0]

\* main before the command line is parsed
NoArgs ==
  [input_file |-> "", exists |-> FALSE, content |-> [kind |-> "none", doc |-> NoPayload],
   file_id |-> None, batch_size |-> None, batch_position |-> None, no_save |-> FALSE]

NoOut == [stdout |-> NoResult, stderr |-> "", code |-> 0, saved |-> ""]

\* the state after import and construction, the endpoint and the installed
\* packages aside
Fresh ==
  /\ content_type = "input_text"
  /\ xpc = "idle"
  /\ xfile = ""
  /\ actual_file_path = 0
  /\ temp_files_to_cleanup = <<>>
  /\ tmpfiles = {}
  /\ created = {}
  /\ xtext = ""
  /\ xexc = NoExc
  /\ fpc = "idle"
  /\ bpc = "idle"
  /\ nfiles = 0
  /\ idx = 0
  /\ cur = NoFile
  /\ fate = <<>>
  /\ results = <<>>
  /\ errors = <<>>
  /\ reply = NoReply
  /\ uploads = {}
  /\ examples = {}
  /\ outputs = {}
  /\ clock = 0
  /\ cpc = "idle"
  /\ args = NoArgs
  /\ is_json_payload = FALSE
  /\ out = NoOut
  /\ pc = [p \in Procs |-> "idle"]
  /\ callNo = [p \in Procs |-> 0]
  /\ payload = [p \in Procs |-> NoPayload]
  /\ request = [p \in Procs |-> NoRequest]
  /\ subs = [p \in Procs |-> <<>>]
  /\ exc = [p \in Procs |-> NoExc]
  /\ response = [p \in Procs |-> NoResponse]
  /\ result = [p \in Procs |-> NoResult]
  /\ calls = 0
  /\ lastOkTag = "input_text"

\* a simulated endpoint is a client handed to the constructor; otherwise
\* the client is made by the first score() call
Init ==
  /\ endpoint \in {"any", "rejects_input_text", "rejects_text"}
  /\ client = IF endpoint = "any" THEN "none" ELSE "given"
  /\ env = [markitdown |-> TRUE]
  /\ Fresh

\* score(), lines 453-463: without a client one is made, which may fail
\* (the SDK is there, or the constructor had raised); then the request is
\* built from the belief of the moment
ScoreBegin(p, given) ==
  /\ Idle(p)
  /\ calls < MaxCalls
  /\ calls' = calls + 1
  /\ payload' = [payload EXCEPT ![p] = given]
  /\ callNo' = [callNo EXCEPT ![p] = calls + 1]
  /\ subs' = [subs EXCEPT ![p] = <<>>]
  /\ response' = [response EXCEPT ![p] = NoResponse]
  /\ result' = [result EXCEPT ![p] = NoResult]
  /\ \/ /\ client' = IF client = "none" THEN "made" ELSE client
        /\ request' = [request EXCEPT
                         ![p] = [model |-> Model,
                                 input |-> _build_input(content_type, given)]]
        /\ exc' = [exc EXCEPT ![p] = NoExc]
        /\ pc' = [pc EXCEPT ![p] = "create1"]
     \/ /\ client = "none"
        /\ UNCHANGED client
        /\ request' = [request EXCEPT ![p] = NoRequest]
        /\ exc' = [exc EXCEPT ![p] = LocalError("OpenAIError", "no client")]
        /\ pc' = [pc EXCEPT ![p] = "raised"]
  /\ UNCHANGED <<endpoint, content_type, lastOkTag>>

\* one call of self.client.responses.create: the submission is recorded, and
\* either a response comes back or an exception is raised
Create(p, hint, onError) ==
  \E o \in Outcomes(request[p]) :
    /\ subs' = [subs EXCEPT ![p] = Append(@, Submission(request[p], hint, o))]
    /\ exc' = [exc EXCEPT ![p] = o]
    /\ IF o = NoExc
         THEN /\ \E r \in ResponsesOf(request[p]) : response' = [response EXCEPT ![p] = r]
              /\ lastOkTag' = request[p].input[1].type
              /\ pc' = [pc EXCEPT ![p] = "parse"]
         ELSE /\ pc' = [pc EXCEPT ![p] = onError]
              /\ UNCHANGED <<response, lastOkTag>>
    /\ UNCHANGED <<endpoint, client, content_type, callNo, payload, request, result,
                   calls>>
    /\ UNCHANGED <<extractVars, appVars, cliVars>>

\* lines 465-469: the first submission carries the response-format hint
Create1(p) ==
  /\ pc[p] = "create1"
  /\ Create(p, TRUE, "except1")

\* Handler with the belief left as it was when the tag is rejected
Handler_NoFlip(e, belief) ==
  IF e.cls = "TypeError"
    THEN [do |-> IF e.rf THEN "resubmit" ELSE "raise", belief |-> belief]
    ELSE IF e.path /\ ((e.q_input_text /\ belief = "input_text")
                         \/ (e.q_text /\ belief = "text"))
           THEN [do |-> "flip", belief |-> belief]
           ELSE [do |-> "raise", belief |-> belief]

\* Handler resubmitting after an error it should propagate
Handler_RetryAny(e, belief) ==
  IF e.cls = "TypeError"
    THEN [do |-> IF e.rf THEN "resubmit" ELSE "raise", belief |-> belief]
    ELSE IF e.path /\ ((e.q_input_text /\ belief = "input_text")
                         \/ (e.q_text /\ belief = "text"))
           THEN [do |-> "flip", belief |-> OtherTag(belief)]
           ELSE [do |-> "resubmit", belief |-> belief]

\* Handler changing the tag when the response-format hint is rejected
Handler_FlipOnHint(e, belief) ==
  IF e.cls = "TypeError"
    THEN IF e.rf
           THEN [do |-> "flip", belief |-> OtherTag(belief)]
           ELSE [do |-> "raise", belief |-> belief]
    ELSE IF e.path /\ ((e.q_input_text /\ belief = "input_text")
                         \/ (e.q_text /\ belief = "text"))
           THEN [do |-> "flip", belief |-> OtherTag(belief)]
           ELSE [do |-> "raise", belief |-> belief]

\* the except clauses of score(), lines 470-489, as a decision on the
\* exception caught and the belief of the moment: resubmit the request as it
\* is, flip the belief and resubmit, or re-raise
Handler(e, belief) ==
  IF e.cls = "TypeError"
    THEN IF ~e.rf
           THEN [do |-> "raise", belief |-> belief]
           ELSE [do |-> "resubmit", belief |-> belief]
    ELSE IF e.path
           THEN IF e.q_input_text /\ belief = "input_text"
                  THEN [do |-> "flip", belief |-> "text"]
                  ELSE IF e.q_text /\ belief = "text"
                         THEN [do |-> "flip", belief |-> "input_text"]
                         ELSE [do |-> "raise", belief |-> belief]
           ELSE [do |-> "raise", belief |-> belief]

\* lines 470-489: the handler of the first submission's exception
Except1(p) ==
  /\ pc[p] = "except1"
  /\ LET h == Handler(exc[p], content_type)
     IN /\ content_type' = h.belief
        /\ request' = [request EXCEPT
                         ![p] = IF h.do = "flip"
                                  THEN [@ EXCEPT !.input =
                                          _build_input(h.belief, payload[p])]
                                  ELSE @]
        /\ pc' = [pc EXCEPT ![p] = IF h.do = "raise" THEN "raised" ELSE "create2"]
  /\ UNCHANGED <<endpoint, client, callNo, payload, subs, exc, response, result, calls,
                 lastOkTag>>
  /\ UNCHANGED <<extractVars, appVars, cliVars>>

\* the resubmission with its exception handled like the first submission's
Create2_Retrying(p) ==
  /\ pc[p] = "create2"
  /\ Create(p, FALSE, "except1")

\* lines 473, 481, 485: the resubmission, made inside the handler: it
\* carries no response_format, and whatever it raises leaves score()
Create2(p) ==
  /\ pc[p] = "create2"
  /\ Create(p, FALSE, "raised")

\* lines 491-499: output_text, or the joined output_text blocks when empty
OutputText(r) == IF r.output_text = NoText THEN r.output ELSE r.output_text

\* int(payload["points"]), line 397
IntOf(v) ==
  CASE v = "int:75" -> "int:75"
    [] v = "str:75" -> "int:75"
    [] v = "str:abc" -> "ValueError"
    [] v = "null" -> "TypeError"

\* the value from_response() returns or the exception it raises
Returns(v) == [exc |-> NoExc, value |-> v]

Raises(e) == [exc |-> e, value |-> NoResult]

\* from_response reading every field with payload.get, so that a missing
\* key becomes None
from_response_defaulting(t, extracted_text) ==
  IF t.kind # "object" THEN Raises(LocalError("TypeError", "not subscriptable"))
  ELSE LET o == t.obj
           get(k) == IF k \in DOMAIN o THEN o[k] ELSE "null"
       IN IF IntOf(get("points")) \in {"ValueError", "TypeError"}
            THEN Raises(LocalError(IntOf(get("points")), "int()"))
            ELSE Returns([schema_version |-> get("schema_version"),
                          points |-> IntOf(get("points")),
                          band |-> get("band"),
                          reason |-> get("reason"),
                          encouragement |-> get("encouragement"),
                          tip |-> get("tip"),
                          extracted_text |-> extracted_text])

\* ScoredOutput.from_response, lines 393-403: the fields are evaluated in the
\* order written, payload[k] raising KeyError on a missing key (TypeError
\* when the parsed JSON is no object), int() raising on what it cannot
\* convert, and payload.get("tip") giving None for a missing tip
from_response(t, extracted_text) ==
  IF t.kind # "object" THEN Raises(LocalError("TypeError", "not subscriptable"))
  ELSE LET o == t.obj
       IN IF "schema_version" \notin DOMAIN o
            THEN Raises(LocalError("KeyError", "schema_version"))
          ELSE IF "points" \notin DOMAIN o
            THEN Raises(LocalError("KeyError", "points"))
          ELSE IF IntOf(o["points"]) \in {"ValueError", "TypeError"}
            THEN Raises(LocalError(IntOf(o["points"]), "int()"))
          ELSE IF "band" \notin DOMAIN o
            THEN Raises(LocalError("KeyError", "band"))
          ELSE IF "reason" \notin DOMAIN o
            THEN Raises(LocalError("KeyError", "reason"))
          ELSE IF "encouragement" \notin DOMAIN o
            THEN Raises(LocalError("KeyError", "encouragement"))
          ELSE Returns([schema_version |-> o["schema_version"],
                        points |-> IntOf(o["points"]),
                        band |-> o["band"],
                        reason |-> o["reason"],
                        encouragement |-> o["encouragement"],
                        tip |-> IF "tip" \in DOMAIN o THEN o["tip"] ELSE "null",
                        extracted_text |-> extracted_text])

\* lines 501-509: the rest of score() on the text: no text and text that
\* json.loads rejects raise RuntimeError, the parsed value goes to
\* from_response
ParseText(t) ==
  IF t.kind = "empty" THEN Raises(LocalError("RuntimeError", "no textual output"))
  ELSE IF t.kind = "nonjson" THEN Raises(LocalError("RuntimeError", "not valid JSON"))
  ELSE from_response(t, "null")

\* lines 491-509: the text is taken from the response, parsed and mapped
Parse(p) ==
  /\ pc[p] = "parse"
  /\ LET r == ParseText(OutputText(response[p]))
     IN /\ exc' = [exc EXCEPT ![p] = r.exc]
        /\ result' = [result EXCEPT ![p] = r.value]
        /\ pc' = [pc EXCEPT ![p] = IF r.exc = NoExc THEN "returned" ELSE "raised"]
  /\ UNCHANGED <<endpoint, client, content_type, callNo, payload, request, subs,
                 response, calls, lastOkTag>>
  /\ UNCHANGED <<extractVars, appVars, cliVars>>

\* one request is served at a time, each fully completed before the next
Begin(p) ==
  /\ p = Caller
  /\ \E given \in Payloads : ScoreBegin(p, given)
  /\ UNCHANGED <<extractVars, appVars, cliVars>>

\* requests served concurrently on the shared instance (app.py:25)
BeginConc(p) ==
  /\ \E given \in Payloads : ScoreBegin(p, given)
  /\ UNCHANGED <<extractVars, appVars, cliVars>>

\* the concurrent requests run against a simulated endpoint
InitConc ==
  /\ endpoint \in {"rejects_input_text", "rejects_text"}
  /\ client = "given"
  /\ env = [markitdown |-> TRUE]
  /\ Fresh

Next ==
  \E p \in Procs :
    \/ Begin(p)
    \/ Create1(p)
    \/ Except1(p)
    \/ Create2(p)
    \/ Parse(p)

Spec == Init /\ [][Next]_vars

\* the steps of a score() call under way: straight-line code of one thread,
\* in which responses.create returns or raises
CallStep == \E p \in Procs : Create1(p) \/ Except1(p) \/ Create2(p) \/ Parse(p)

\* the sequential calls, a call under way running on
SpecLive == Spec /\ WF_vars(CallStep)

NextConc ==
  \E p \in Procs :
    \/ BeginConc(p)
    \/ Create1(p)
    \/ Except1(p)
    \/ Create2(p)
    \/ Parse(p)

SpecConc == InitConc /\ [][NextConc]_vars

(* --------------------------- text extraction --------------------------- *)

\* the file names uploaded
FileNames == {"", "notes.txt", "my s.webp", "t.tif"}

\* werkzeug's secure_filename on these names (app.py:133)
secure_filename(name) == IF name = "my s.webp" THEN "my_s.webp" ELSE name

\* Path(name).suffix.lower()
Suffix(name) ==
  CASE name = "notes.txt" -> ".txt"
    [] name \in {"my s.webp", "my_s.webp"} -> ".webp"
    [] name = "t.tif" -> ".tif"
    [] name = "p.json" -> ".json"
    [] OTHER -> ""

\* Path(name).stem
Stem(name) ==
  CASE name = "notes.txt" -> "notes"
    [] name = "my s.webp" -> "my s"
    [] name = "my_s.webp" -> "my_s"
    [] name = "t.tif" -> "t"
    [] name = "p.json" -> "p"
    [] OTHER -> ""

\* allowed_file, app.py:18,28-30
allowed_file(name) ==
  Suffix(name) \in {".jpg", ".jpeg", ".png", ".webp", ".gif", ".bmp", ".tiff", ".tif"}

\* is_image, incentive_scorer.py:316-317
is_image(name) ==
  Suffix(name) \in {".jpg", ".jpeg", ".png", ".webp", ".gif", ".bmp", ".tiff"}

\* the texts an extraction gives
ExtractedTexts == {"Costco receipt: total $38.47", ""}

\* tempfile.NamedTemporaryFile(delete=False): a name not in use
NewTmp == CHOOSE i \in 1..(Cardinality(tmpfiles) + 1) : i \notin tmpfiles

Range(seq) == {seq[i] : i \in DOMAIN seq}

\* lines 366-370: the files listed are unlinked
Unlinked(files, list) == files \ Range(list)

\* line 380: whatever the try block raises leaves as this RuntimeError
ConversionError == LocalError("RuntimeError", "Failed to convert file")

XRaise(e) ==
  /\ xpc' = "raised"
  /\ xexc' = e

\* Path(file_path).exists(): an upload saved, or the input file of main
Exists(dir, name) ==
  \/ dir = "uploads" /\ name \in uploads
  \/ dir = "docs" /\ name = args.input_file /\ args.exists

\* score_file, line 529, and convert_file_to_text, lines 307-326: the
\* checks made before the extraction proper (the OpenAI SDK is there, or
\* the scorer had not been constructed)
ConvertBegin ==
  /\ bpc = "score_file" \/ cpc = "score_file"
  /\ fpc = "idle"
  /\ fpc' = "extracting"
  /\ xfile' = cur.filename
  /\ actual_file_path' = 0
  /\ temp_files_to_cleanup' = <<>>
  /\ created' = {}
  /\ xtext' = ""
  /\ IF ~env.markitdown
       THEN XRaise(LocalError("RuntimeError", "MarkItDown is required"))
       ELSE IF ~Exists(cur.dir, cur.filename)
         THEN XRaise(LocalError("FileNotFoundError", "File not found"))
         ELSE /\ xpc' = IF is_image(cur.filename) THEN "enhance" ELSE "convert"
              /\ xexc' = NoExc
  /\ UNCHANGED <<env, tmpfiles>>
  /\ UNCHANGED <<bpc, nfiles, idx, cur, fate, results, errors, reply, uploads, examples,
                 outputs, clock>>
  /\ UNCHANGED <<adapterVars, cliVars>>

\* enhance_receipt_image, lines 248-287, and lines 329-333: the enhanced
\* copy is saved to a new temporary file; on any failure (PIL missing, the
\* image unreadable) the original path comes back -- also when the temporary
\* file exists already and img.save fails
Enhance ==
  /\ xpc = "enhance"
  /\ \E o \in {"ok", "fail_open", "fail_save"} :
       /\ IF o \in {"ok", "fail_save"}
            THEN /\ tmpfiles' = tmpfiles \cup {NewTmp}
                 /\ created' = created \cup {NewTmp}
            ELSE UNCHANGED <<tmpfiles, created>>
       /\ IF o = "ok"
            THEN /\ temp_files_to_cleanup' = Append(temp_files_to_cleanup, NewTmp)
                 /\ actual_file_path' = NewTmp
            ELSE UNCHANGED <<temp_files_to_cleanup, actual_file_path>>
  /\ xpc' = IF Suffix(xfile) = ".webp" THEN "transcode" ELSE "client"
  /\ UNCHANGED <<env, xfile, xtext, xexc>>
  /\ UNCHANGED <<adapterVars, appVars, cliVars>>

\* lines 336-349: a .webp file is saved again as PNG in a new temporary
\* file; any failure leaves as a RuntimeError
Transcode ==
  /\ xpc = "transcode"
  /\ \E o \in {"ok", "fail_open", "fail_save"} :
       /\ IF o \in {"ok", "fail_save"}
            THEN /\ tmpfiles' = tmpfiles \cup {NewTmp}
                 /\ created' = created \cup {NewTmp}
            ELSE UNCHANGED <<tmpfiles, created>>
       /\ IF o = "ok"
            THEN /\ temp_files_to_cleanup' = Append(temp_files_to_cleanup, NewTmp)
                 /\ actual_file_path' = NewTmp
                 /\ xpc' = "client"
                 /\ UNCHANGED xexc
            ELSE /\ XRaise(ConversionError)
                 /\ UNCHANGED <<temp_files_to_cleanup, actual_file_path>>
  /\ UNCHANGED <<env, xfile, xtext>>
  /\ UNCHANGED <<adapterVars, appVars, cliVars>>

\* line 351: client = OpenAI()
MakeClient ==
  /\ xpc = "client"
  /\ \/ xpc' = "convert" /\ UNCHANGED xexc
     \/ XRaise(ConversionError)
  /\ UNCHANGED <<env, xfile, actual_file_path, temp_files_to_cleanup, tmpfiles,
                 created, xtext>>
  /\ UNCHANGED <<adapterVars, appVars, cliVars>>

\* lines 362-372 and 375-378: md.convert; when it returns, the files of
\* temp_files_to_cleanup are unlinked and the text is returned
MdConvert ==
  /\ xpc = "convert"
  /\ \/ /\ \E t \in ExtractedTexts : xtext' = t
        /\ tmpfiles' = Unlinked(tmpfiles, temp_files_to_cleanup)
        /\ xpc' = "returned"
        /\ UNCHANGED xexc
     \/ /\ XRaise(ConversionError)
        /\ UNCHANGED <<tmpfiles, xtext>>
  /\ UNCHANGED <<env, xfile, actual_file_path, temp_files_to_cleanup, created>>
  /\ UNCHANGED <<adapterVars, appVars, cliVars>>

(* ------------------------------ score_file ----------------------------- *)

\* a path: the directory and the file's name in it
Path(dir, name) == <<dir, name>>

\* Path(file_path).name, line 533
PathName(file_path) == file_path[2]

DefaultContext == [total_files_in_batch |-> 1, file_position |-> 1]

\* score_file's payload with the batch context the caller gave left out
score_file_payload_defaulting(file_path, file_id, batch_context, normalized_text) ==
  [file_id |-> IF file_id.none THEN PathName(file_path) ELSE file_id.v,
   normalized_text |-> normalized_text,
   batch_context |-> DefaultContext]

\* lines 531-540: file_id is the file's name when None was given, and
\* batch_context the default when what was given is falsy (None, or {})
score_file_payload(file_path, file_id, batch_context, normalized_text) ==
  [file_id |-> IF file_id.none THEN PathName(file_path) ELSE file_id.v,
   normalized_text |-> normalized_text,
   batch_context |-> IF batch_context.none THEN DefaultContext
                     ELSE IF DOMAIN batch_context.v = {} THEN DefaultContext
                     ELSE batch_context.v]

\* score_file scoring whatever the extraction ended with, an empty text in
\* place of the text of a failed extraction
ScoreFileScore_Substituting ==
  /\ fpc = "extracting"
  /\ xpc \in {"returned", "raised"}
  /\ ScoreBegin(Caller,
                score_file_payload(Path(cur.dir, xfile), cur.file_id,
                                   cur.batch_context, xtext))
  /\ fpc' = "scoring"
  /\ UNCHANGED extractVars
  /\ UNCHANGED <<bpc, nfiles, idx, cur, fate, results, errors, reply, uploads, examples,
                 outputs, clock>>
  /\ UNCHANGED cliVars

\* lines 531-543: the payload is built and handed to score()
ScoreFileScore ==
  /\ fpc = "extracting"
  /\ xpc = "returned"
  /\ ScoreBegin(Caller,
                score_file_payload(Path(cur.dir, xfile), cur.file_id,
                                   cur.batch_context, xtext))
  /\ fpc' = "scoring"
  /\ UNCHANGED extractVars
  /\ UNCHANGED <<bpc, nfiles, idx, cur, fate, results, errors, reply, uploads, examples,
                 outputs, clock>>
  /\ UNCHANGED cliVars

\* lines 545-548: the extracted text is attached to the result
ScoreFileReturn ==
  /\ fpc = "scoring"
  /\ pc[Caller] = "returned"
  /\ result' = [result EXCEPT ![Caller].extracted_text = xtext]
  /\ fpc' = "returned"
  /\ UNCHANGED extractVars
  /\ UNCHANGED <<endpoint, client, content_type, pc, callNo, payload, request, subs,
                 exc, response, calls, lastOkTag>>
  /\ UNCHANGED <<bpc, nfiles, idx, cur, fate, results, errors, reply, uploads, examples,
                 outputs, clock>>
  /\ UNCHANGED cliVars

(* ----------------------------- batch_upload ---------------------------- *)

\* the locals of score_file, convert_file_to_text and score are gone
CallOver ==
  /\ fpc' = "idle"
  /\ xpc' = "idle"
  /\ xfile' = ""
  /\ actual_file_path' = 0
  /\ temp_files_to_cleanup' = <<>>
  /\ created' = {}
  /\ xtext' = ""
  /\ xexc' = NoExc
  /\ pc' = [pc EXCEPT ![Caller] = "idle"]
  /\ callNo' = [callNo EXCEPT ![Caller] = 0]
  /\ payload' = [payload EXCEPT ![Caller] = NoPayload]
  /\ request' = [request EXCEPT ![Caller] = NoRequest]
  /\ subs' = [subs EXCEPT ![Caller] = <<>>]
  /\ exc' = [exc EXCEPT ![Caller] = NoExc]
  /\ response' = [response EXCEPT ![Caller] = NoResponse]
  /\ result' = [result EXCEPT ![Caller] = NoResult]
  /\ UNCHANGED <<endpoint, client, content_type, calls, lastOkTag, env, tmpfiles>>

\* app.py:112-121: the request is taken; without files it is refused
BatchBegin ==
  /\ bpc = "idle"
  /\ cpc = "idle"
  /\ \E n \in 0..MaxFiles :
       /\ nfiles' = n
       /\ IF n = 0
            THEN /\ bpc' = "done"
                 /\ reply' = [success |-> 0, failed |-> 0, status |-> 400]
            ELSE /\ bpc' = "loop"
                 /\ UNCHANGED reply
  /\ idx' = 0
  /\ results' = <<>>
  /\ errors' = <<>>
  /\ UNCHANGED <<fpc, cur, fate, uploads, examples, outputs, clock>>
  /\ UNCHANGED <<adapterVars, extractVars, cliVars>>

\* app.py:123-141: the next file of the loop: skipped without a name,
\* refused with a name not allowed, else saved to the upload folder
BatchNextFile ==
  /\ bpc = "loop"
  /\ idx < nfiles
  /\ idx' = idx + 1
  /\ \E name \in FileNames :
       IF name = ""
         THEN /\ fate' = Append(fate, [name |-> name, outcome |-> "skipped"])
              /\ UNCHANGED <<bpc, cur, errors, uploads>>
       ELSE IF ~allowed_file(name)
         THEN /\ fate' = Append(fate, [name |-> name, outcome |-> "refused"])
              /\ errors' = Append(errors, [name |-> name, error |-> "Only image files supported"])
              /\ UNCHANGED <<bpc, cur, uploads>>
         ELSE /\ uploads' = uploads \cup {secure_filename(name)}
              /\ cur' = [name |-> name, dir |-> "uploads",
                         filename |-> secure_filename(name),
                         file_id |-> None,
                         batch_context |-> Some([total_files_in_batch |-> nfiles,
                                                 file_position |-> idx + 1])]
              /\ bpc' = "score_file"
              /\ UNCHANGED <<fate, errors>>
  /\ UNCHANGED <<fpc, nfiles, results, reply, examples, outputs, clock>>
  /\ UNCHANGED <<adapterVars, extractVars, cliVars>>

\* batch_upload without the try of app.py:131: what the file's processing
\* raised ends the request
BatchExcept_Abort ==
  /\ bpc = "score_file"
  /\ \/ fpc = "extracting" /\ xpc = "raised"
     \/ fpc = "scoring" /\ pc[Caller] = "raised"
  /\ bpc' = "done"
  /\ reply' = [success |-> 0, failed |-> 0, status |-> 500]
  /\ cur' = NoFile
  /\ CallOver
  /\ UNCHANGED <<nfiles, idx, fate, results, errors, uploads, examples, outputs, clock>>
  /\ UNCHANGED cliVars

\* app.py:189-190: whatever the file's processing raised goes to errors,
\* and the loop goes on
BatchExcept ==
  /\ bpc = "score_file"
  /\ \/ /\ fpc = "extracting" /\ xpc = "raised"
        /\ fate' = Append(fate, [name |-> cur.name, outcome |-> "extraction failed"])
        /\ errors' = Append(errors, [name |-> cur.name, error |-> xexc.msg])
     \/ /\ fpc = "scoring" /\ pc[Caller] = "raised"
        /\ fate' = Append(fate, [name |-> cur.name, outcome |-> "scoring failed"])
        /\ errors' = Append(errors, [name |-> cur.name, error |-> exc[Caller].msg])
  /\ bpc' = "loop"
  /\ cur' = NoFile
  /\ CallOver
  /\ UNCHANGED <<nfiles, idx, results, reply, uploads, examples, outputs, clock>>
  /\ UNCHANGED cliVars

\* app.py:144-187: the image is copied to the examples folder and the
\* record written under names made of the file's stem and the second read
\* from the clock, the upload is removed, and the file goes to results
BatchPersist ==
  /\ bpc = "score_file"
  /\ fpc = "returned"
  /\ \E ts \in {clock, clock + 1} :
       /\ ts <= MaxClock
       /\ clock' = ts
       /\ LET saved == <<Stem(cur.filename), ts, Suffix(cur.filename)>>
          IN /\ examples' = examples \cup {saved}
             /\ outputs' = outputs \cup {saved}
             /\ uploads' = uploads \ {cur.filename}
             /\ results' = Append(results,
                                  [filename |-> cur.filename,
                                   points |-> result[Caller].points,
                                   saved_image |-> saved, saved_json |-> saved])
             /\ fate' = Append(fate, [name |-> cur.name, outcome |-> "ok"])
             /\ UNCHANGED errors
  /\ bpc' = "loop"
  /\ cur' = NoFile
  /\ CallOver
  /\ UNCHANGED <<nfiles, idx, reply>>
  /\ UNCHANGED cliVars

\* app.py:192-197: the reply carries both collections and their sizes
BatchEnd ==
  /\ bpc = "loop"
  /\ idx = nfiles
  /\ bpc' = "done"
  /\ reply' = [success |-> Len(results), failed |-> Len(errors), status |-> 200]
  /\ UNCHANGED <<fpc, nfiles, idx, cur, fate, results, errors, uploads, examples,
                 outputs, clock>>
  /\ UNCHANGED <<adapterVars, extractVars, cliVars>>

\* the web application serving one batch upload against an endpoint that
\* fails now and then, with or without the optional packages
InitApp ==
  /\ endpoint = "flaky"
  /\ client = "none"
  /\ env \in [markitdown : BOOLEAN]
  /\ Fresh

NextApp ==
  \/ BatchBegin
  \/ BatchNextFile
  \/ ConvertBegin
  \/ Enhance
  \/ Transcode
  \/ MakeClient
  \/ MdConvert
  \/ ScoreFileScore
  \/ Create1(Caller)
  \/ Except1(Caller)
  \/ Create2(Caller)
  \/ Parse(Caller)
  \/ ScoreFileReturn
  \/ BatchExcept
  \/ BatchPersist
  \/ BatchEnd

SpecApp == InitApp /\ [][NextApp]_vars

(* --------------------------------- main -------------------------------- *)

\* as_dict leaving out a tip that is None
as_dict_dropping(self, include_extracted_text) ==
  LET keys == (IF self.tip = "null" THEN RequiredKeys ELSE AllKeys)
                \cup (IF include_extracted_text /\ self.extracted_text # "null"
                        THEN {"extracted_text"} ELSE {})
  IN [k \in keys |-> self[k]]

\* ScoredOutput.as_dict, lines 405-416: the six fields, and extracted_text
\* when asked for and not None
as_dict(self, include_extracted_text) ==
  LET keys == AllKeys
                \cup (IF include_extracted_text /\ self.extracted_text # "null"
                        THEN {"extracted_text"} ELSE {})
  IN [k \in keys |-> self[k]]

\* what the input file holds: a JSON payload, a JSON object without the
\* payload's keys, a JSON number, text that is no JSON, or a document
CliContents(name) ==
  IF Suffix(name) = ".json"
    THEN {[kind |-> "payload", doc |-> d] : d \in Payloads}
           \cup {[kind |-> k, doc |-> NoPayload] : k \in {"object", "number", "invalid"}}
    ELSE {[kind |-> "document", doc |-> NoPayload]}

\* --batch-size and --batch-position as given together
CliBatchArgs ==
  {<<None, None>>, <<None, Some(2)>>, <<Some(2), None>>, <<Some(2), Some(0)>>,
   <<Some(2), Some(2)>>}

\* the command lines: the input file with what it holds, and the flags
CliArgsFor(name) ==
  {[input_file |-> name, exists |-> TRUE, content |-> c, file_id |-> f,
    batch_size |-> b[1], batch_position |-> b[2], no_save |-> ns] :
     c \in CliContents(name), f \in {None, Some("id7")}, b \in CliBatchArgs,
     ns \in BOOLEAN}

CliArgs ==
  CliArgsFor("p.json") \cup CliArgsFor("notes.txt")
    \cup {[NoArgs EXCEPT !.input_file = "notes.txt"]}

\* lines 620-626: the batch context main hands to score_file
CliBatchContext(a) ==
  IF a.batch_size.none THEN None
  ELSE Some([total_files_in_batch |-> a.batch_size.v,
             file_position |-> IF a.batch_position.none THEN 1
                               ELSE IF a.batch_position.v = 0 THEN 1
                               ELSE a.batch_position.v])

\* lines 618-631: the input goes to score_file
CliToScoreFile(a) ==
  /\ cpc' = "score_file"
  /\ is_json_payload' = FALSE
  /\ cur' = [name |-> a.input_file, dir |-> "docs", filename |-> a.input_file,
             file_id |-> a.file_id, batch_context |-> CliBatchContext(a)]
  /\ UNCHANGED out

\* lines 633-635: the handler of whatever the try block raised
CliFail(e) ==
  /\ cpc' = "exit"
  /\ out' = [out EXCEPT !.stderr = e.msg, !.code = 1]

\* lines 599-616: the command line is parsed and the scorer constructed; a
\* missing file ends main; a .json file is loaded and, holding both keys,
\* scored as a payload; `in` on a number raises TypeError, which the handler
\* of line 614 does not take
CliBegin ==
  /\ cpc = "idle"
  /\ bpc = "idle"
  /\ \E a \in CliArgs :
       /\ args' = a
       /\ IF ~a.exists
            THEN /\ CliFail(LocalError("SystemExit", "File not found"))
                 /\ UNCHANGED <<is_json_payload, cur, adapterVars>>
          ELSE IF a.content.kind = "payload"
            THEN /\ ScoreBegin(Caller, a.content.doc)
                 /\ cpc' = "score"
                 /\ is_json_payload' = TRUE
                 /\ UNCHANGED <<out, cur>>
          ELSE IF a.content.kind = "number"
            THEN /\ CliFail(LocalError("TypeError", "not iterable"))
                 /\ UNCHANGED <<is_json_payload, cur, adapterVars>>
          ELSE /\ CliToScoreFile(a)
               /\ UNCHANGED adapterVars
  /\ UNCHANGED extractVars
  /\ UNCHANGED <<fpc, bpc, nfiles, idx, fate, results, errors, reply, uploads, examples,
                 outputs, clock>>

\* lines 613-616 and 633-635: score(payload) is over: its result is kept;
\* a KeyError it raised is taken by the handler of line 614, which clears
\* the flag, so that the file goes on to score_file; any other exception
\* ends main
CliScoreEnd ==
  /\ cpc = "score"
  /\ \/ /\ pc[Caller] = "returned"
        /\ cpc' = "output"
        /\ UNCHANGED <<is_json_payload, out, cur, adapterVars, extractVars, fpc>>
     \/ /\ pc[Caller] = "raised"
        /\ IF exc[Caller].cls \in {"KeyError", "JSONDecodeError"}
             THEN /\ CliToScoreFile(args)
                  /\ CallOver
             ELSE /\ CliFail(exc[Caller])
                  /\ UNCHANGED <<is_json_payload, cur, adapterVars, extractVars, fpc>>
  /\ UNCHANGED <<bpc, nfiles, idx, fate, results, errors, reply, uploads, examples,
                 outputs, clock>>
  /\ UNCHANGED args

\* lines 627-635: score_file is over: its result is kept, or what it raised
\* ends main
CliFileEnd ==
  /\ cpc = "score_file"
  /\ \/ /\ fpc = "returned"
        /\ cpc' = "output"
        /\ UNCHANGED out
     \/ /\ fpc = "extracting" /\ xpc = "raised"
        /\ CliFail(xexc)
     \/ /\ fpc = "scoring" /\ pc[Caller] = "raised"
        /\ CliFail(exc[Caller])
  /\ UNCHANGED <<args, is_json_payload>>
  /\ UNCHANGED <<adapterVars, extractVars, appVars>>

\* lines 637-665: the result is printed and, unless --no-save was given,
\* written to <stem>_scored.json; a failure to write is a warning only
CliOutput ==
  /\ cpc = "output"
  /\ cpc' = "exit"
  /\ \E written \in BOOLEAN :
       out' = [stdout |-> as_dict(result[Caller], TRUE),
               stderr |-> IF args.no_save THEN ""
                          ELSE IF written THEN "Output saved" ELSE "Warning",
               code |-> 0,
               saved |-> IF ~args.no_save /\ written
                           THEN Stem(args.input_file) ELSE ""]
  /\ UNCHANGED <<args, is_json_payload>>
  /\ UNCHANGED <<adapterVars, extractVars, appVars>>

\* the command line run once against an endpoint that fails now and then and
\* answers with any text
InitCli ==
  /\ endpoint = "unreliable"
  /\ client = "none"
  /\ env \in [markitdown : BOOLEAN]
  /\ Fresh

NextCli ==
  \/ CliBegin
  \/ CliScoreEnd
  \/ ConvertBegin
  \/ MdConvert
  \/ ScoreFileScore
  \/ Create1(Caller)
  \/ Except1(Caller)
  \/ Create2(Caller)
  \/ Parse(Caller)
  \/ ScoreFileReturn
  \/ CliFileEnd
  \/ CliOutput

SpecCli == InitCli /\ [][NextCli]_vars

(* ------------------------------- claims -------------------------------- *)

\* the endpoint's content-tag rejection of the tag sent: an API error whose
\* message names input[0].content[0].type and that tag in quotes
IsTagRejection(e, tag) ==
  /\ e.cls = "APIError"
  /\ e.path
  /\ (tag = "input_text" => e.q_input_text)
  /\ (tag = "text" => e.q_text)

\* the rejection of the response-format hint
IsHintRejection(e) == e.cls = "TypeError" /\ e.rf

Outcome(p, i) == subs[p][i].outcome

\* the call of p has left the submissions behind with an accepted one
Accepted(p) ==
  /\ pc[p] \in {"parse", "returned", "raised"}
  /\ Len(subs[p]) >= 1
  /\ Outcome(p, Len(subs[p])) = NoExc

\* C1: against an endpoint that rejects 'input_text' with the content-tag
\* error and accepts 'text', the first score() call on a fresh adapter has its
\* first submission (tag 'input_text') rejected and its second (tag 'text')
\* accepted, and every later call sends 'text' in its first submission.
C1_Negotiation ==
  endpoint = "rejects_input_text" =>
    \A p \in Procs :
      /\ (callNo[p] = 1 /\ pc[p] \in {"parse", "returned", "raised"}) =>
           /\ Len(subs[p]) = 2
           /\ TagOf(subs[p][1]) = "input_text"
           /\ IsTagRejection(Outcome(p, 1), "input_text")
           /\ TagOf(subs[p][2]) = "text"
           /\ Outcome(p, 2) = NoExc
      /\ (callNo[p] > 1 /\ Len(subs[p]) >= 1) =>
           /\ TagOf(subs[p][1]) = "text"
           /\ Outcome(p, 1) = NoExc

C1_Witness ==
  /\ endpoint = "rejects_input_text"
  /\ callNo[Caller] = 2
  /\ pc[Caller] = "returned"
  /\ Len(subs[Caller]) = 1
  /\ TagOf(subs[Caller][1]) = "text"

\* C2: every submission of a call that the endpoint answers with the
\* content-tag rejection of the tag sent (the first submission, and the one
\* made after the response-format hint was dropped) is followed by exactly one
\* more submission, carrying the other tag.
C2_FlipOnEveryRejection ==
  \A p \in Procs :
    pc[p] \in {"parse", "returned", "raised"} =>
      \A i \in 1..Len(subs[p]) :
        (/\ IsTagRejection(Outcome(p, i), TagOf(subs[p][i]))
         /\ (i = 1 \/ IsHintRejection(Outcome(p, i - 1)))) =>
          /\ Len(subs[p]) = i + 1
          /\ TagOf(subs[p][i + 1]) = OtherTag(TagOf(subs[p][i]))

\* C3: the first submission of a call carries the tag of the most recent
\* accepted submission on the instance ('input_text' when there is none).
C3_StartsWithLastAccepted ==
  \A p \in Procs :
    pc[p] = "create1" => request[p].input[1].type = lastOkTag

\* C4: against an endpoint that rejects one tag and accepts the other, two
\* score() calls that have both finished have both had a submission accepted,
\* and the belief is the accepted tag.
C4_ConcurrentCallsSucceed ==
  (\A p \in Procs : pc[p] \in {"returned", "raised"}) =>
    /\ \A p \in Procs : Outcome(p, Len(subs[p])) = NoExc
    /\ endpoint = "rejects_input_text" => content_type = "text"
    /\ endpoint = "rejects_text" => content_type = "input_text"

\* C5: when convert_file_to_text has returned or raised, no temporary file
\* created during the call is left on disk.
C5_TransientsDeleted ==
  xpc \in {"returned", "raised"} => created \cap tmpfiles = {}

IsOk(f) == f.outcome = "ok"

IsFailed(f) == f.outcome \in {"refused", "extraction failed", "scoring failed"}

\* C6: the loop of batch_upload takes every file whatever became of the
\* files before it: the files that failed are, in their order and under their
\* names, the entries of errors, the files that succeeded those of results,
\* the reply is made after the last file and counts both collections; and of
\* three files of which only the second fails, in extraction, the reply says
\* success=2 and failed=1 with the first and third in results.
C6_BatchIsolation ==
  /\ bpc = "loop" => Len(fate) = idx
  /\ bpc = "score_file" => Len(fate) = idx - 1
  /\ Len(results) = Len(SelectSeq(fate, IsOk))
  /\ \A j \in DOMAIN results :
       results[j].filename = secure_filename(SelectSeq(fate, IsOk)[j].name)
  /\ Len(errors) = Len(SelectSeq(fate, IsFailed))
  /\ \A j \in DOMAIN errors : errors[j].name = SelectSeq(fate, IsFailed)[j].name
  /\ (bpc = "done" /\ nfiles > 0) =>
       /\ reply.status = 200
       /\ Len(fate) = nfiles
       /\ reply.success = Len(results)
       /\ reply.failed = Len(errors)
  /\ (/\ bpc = "done"
      /\ nfiles = 3
      /\ Len(fate) = 3
      /\ fate[1].outcome = "ok"
      /\ fate[2].outcome = "extraction failed"
      /\ fate[3].outcome = "ok") =>
       /\ reply.success = 2
       /\ reply.failed = 1
       /\ Len(errors) = 1
       /\ errors[1].name = fate[2].name
       /\ Len(results) = 2
       /\ results[1].filename = secure_filename(fate[1].name)
       /\ results[2].filename = secure_filename(fate[3].name)

C6_Witness ==
  /\ bpc = "done"
  /\ nfiles = 3
  /\ Len(fate) = 3
  /\ fate[1].outcome = "ok"
  /\ fate[2].outcome = "extraction failed"
  /\ fate[3].outcome = "ok"
  /\ reply = [success |-> 2, failed |-> 1, status |-> 200]

\* C7: when the first submission's error is neither the content-tag rejection
\* of the tag sent nor the rejection of the response-format hint, the call
\* has made that one submission only, the belief is the tag it started
\* with, and the error raised is that very error.
C7_OtherErrorsPropagate ==
  \A p \in Procs :
    (/\ Len(subs[p]) >= 1
     /\ pc[p] # "except1"
     /\ Outcome(p, 1) # NoExc
     /\ ~IsHintRejection(Outcome(p, 1))
     /\ ~IsTagRejection(Outcome(p, 1), TagOf(subs[p][1]))) =>
      /\ pc[p] = "raised"
      /\ Len(subs[p]) = 1
      /\ exc[p] = Outcome(p, 1)
      /\ content_type = TagOf(subs[p][1])
      /\ result[p] = NoResult

C7_Witness ==
  \E p \in Procs :
    /\ pc[p] = "raised"
    /\ Len(subs[p]) = 1
    /\ Outcome(p, 1).cls = "APIError"
    /\ ~Outcome(p, 1).path
    /\ exc[p] = Outcome(p, 1)

\* C8: when the first submission is answered with the rejection of the
\* response-format hint, the same request (model, both messages, tag) is
\* submitted once more without the hint; accepted, the call goes on to
\* parsing, and rejected, the call fails with that error.
C8_HintDegradation ==
  \A p \in Procs :
    (/\ Len(subs[p]) >= 1
     /\ pc[p] # "except1"
     /\ IsHintRejection(Outcome(p, 1))) =>
      /\ subs[p][1].hint
      /\ Len(subs[p]) <= 2
      /\ Len(subs[p]) = 1 =>
           /\ pc[p] = "create2"
           /\ request[p].model = subs[p][1].model
           /\ request[p].input = subs[p][1].input
      /\ Len(subs[p]) = 2 =>
           /\ subs[p][2].model = subs[p][1].model
           /\ subs[p][2].input = subs[p][1].input
           /\ ~subs[p][2].hint
           /\ Outcome(p, 2) = NoExc => pc[p] \in {"parse", "returned", "raised"}
           /\ Outcome(p, 2) # NoExc => (pc[p] = "raised" /\ exc[p] = Outcome(p, 2))
           /\ (pc[p] = "raised" /\ Outcome(p, 2) = NoExc) => exc[p].msg # "endpoint"

C8_Witness ==
  \E p \in Procs :
    /\ Len(subs[p]) = 2
    /\ IsHintRejection(Outcome(p, 1))
    /\ Outcome(p, 2) = NoExc
    /\ pc[p] = "returned"

\* C9: a parsed response object lacking a required key makes score() raise
\* the error of the mapping step (KeyError naming a missing key, or the
\* error of int() on a points value evaluated before the missing key) and
\* return nothing; an object lacking only tip is returned with tip None and
\* every other field as received.
C9_MissingKeyRaises ==
  \A p \in Procs :
    (/\ pc[p] \in {"returned", "raised"}
     /\ Accepted(p)
     /\ OutputText(response[p]).kind = "object") =>
      LET o == OutputText(response[p]).obj
          missing == RequiredKeys \ DOMAIN o
          badPoints == /\ "points" \in DOMAIN o
                       /\ o["points"] \in {"str:abc", "null"}
      IN /\ missing # {} =>
              /\ pc[p] = "raised"
              /\ result[p] = NoResult
              /\ \/ exc[p].cls = "KeyError" /\ exc[p].msg \in missing
                 \/ badPoints /\ exc[p].cls \in {"ValueError", "TypeError"}
         /\ (DOMAIN o = RequiredKeys /\ ~badPoints) =>
              /\ pc[p] = "returned"
              /\ result[p].tip = "null"
              /\ result[p].band = o["band"]
              /\ result[p].schema_version = o["schema_version"]
              /\ result[p].reason = o["reason"]
              /\ result[p].encouragement = o["encouragement"]

C9_Witness ==
  \E p \in Procs :
    /\ pc[p] = "raised"
    /\ Accepted(p)
    /\ OutputText(response[p]).kind = "object"
    /\ "band" \notin DOMAIN OutputText(response[p]).obj
    /\ exc[p] = LocalError("KeyError", "band")
    /\ result[p] = NoResult

\* C10: text that does not parse as a JSON object makes score() raise the
\* malformed-response error (the RuntimeError "LLM output was not valid
\* JSON"), not an error of the mapping step, and return nothing.
C10_MalformedRaises ==
  \A p \in Procs :
    (/\ pc[p] \in {"returned", "raised"}
     /\ Accepted(p)
     /\ OutputText(response[p]).kind \in {"nonjson", "nonobject"}) =>
      /\ pc[p] = "raised"
      /\ result[p] = NoResult
      /\ exc[p] = LocalError("RuntimeError", "not valid JSON")

\* a response object with the required keys and points an integer
WellFormed(o) ==
  /\ RequiredKeys \subseteq DOMAIN o
  /\ o["points"] = "int:75"

\* main has printed the result of score() on the payload file: out.stdout is
\* from_response(obj).as_dict() of the response object obj
PrintedFromResponse ==
  /\ cpc = "exit"
  /\ out.code = 0
  /\ is_json_payload
  /\ OutputText(response[Caller]).kind = "object"

\* C11 as claimed: for every well-formed response object (tip a string, null
\* or absent), from_response(obj).as_dict() is obj itself: no key added,
\* dropped or changed in value.
C11_RoundTripIdentical ==
  (PrintedFromResponse /\ WellFormed(OutputText(response[Caller]).obj)) =>
    out.stdout = OutputText(response[Caller]).obj

\* C11: for every response object with the required keys and points an
\* integer, from_response(obj).as_dict() has exactly the six keys, each
\* required key with obj's value and tip with obj's value, null when obj has
\* no tip: it is obj itself when obj has a tip (string or null), and obj with
\* tip: null added when it has none.
C11_RoundTrip ==
  (PrintedFromResponse /\ WellFormed(OutputText(response[Caller]).obj)) =>
    LET o == OutputText(response[Caller]).obj
    IN /\ DOMAIN out.stdout = AllKeys
       /\ \A k \in RequiredKeys : out.stdout[k] = o[k]
       /\ "tip" \in DOMAIN o => out.stdout = o
       /\ "tip" \notin DOMAIN o => out.stdout["tip"] = "null"

C11_Witness ==
  /\ PrintedFromResponse
  /\ WellFormed(OutputText(response[Caller]).obj)
  /\ "tip" \notin DOMAIN OutputText(response[Caller]).obj
  /\ DOMAIN out.stdout = AllKeys
  /\ out.stdout["tip"] = "null"

\* the request r carries the rubric in its system message and, in its user
\* message, a text that deserializes to the payload g
Carries(r, g) ==
  /\ Len(r.input) = 2
  /\ r.input[1].role = "system"
  /\ r.input[1].text = "SYSTEM_SPEC"
  /\ r.input[2].role = "user"
  /\ json_loads(r.input[2].text) = g

\* C12: every request built and every submission made carries the rubric
\* and a user text that deserializes to the payload of the call; and the
\* payload score_file builds has the batch_context it was given, unchanged,
\* when that has total_files_in_batch >= 1 and file_position within 1..total,
\* {total_files_in_batch: 1, file_position: 1} when none was given, the
\* file_id given, and the file's base name when none was given.
C12_PayloadEcho ==
  /\ \A p \in Procs :
       /\ request[p] # NoRequest => Carries(request[p], payload[p])
       /\ \A i \in 1..Len(subs[p]) : Carries(subs[p][i], payload[p])
  /\ fpc \in {"scoring", "returned"} =>
       LET g == payload[Caller]
           b == cur.batch_context
       IN /\ (/\ ~b.none
              /\ b.v.total_files_in_batch >= 1
              /\ b.v.file_position \in 1..b.v.total_files_in_batch) =>
                g.batch_context = b.v
          /\ b.none => g.batch_context = [total_files_in_batch |-> 1, file_position |-> 1]
          /\ cur.file_id.none => g.file_id = cur.filename
          /\ ~cur.file_id.none => g.file_id = cur.file_id.v

C12_Witness ==
  /\ fpc = "returned"
  /\ cur.file_id = None
  /\ cur.batch_context = Some([total_files_in_batch |-> 2, file_position |-> 2])
  /\ Len(subs[Caller]) >= 1
  /\ json_loads(subs[Caller][1].input[2].text) =
       [file_id |-> "notes.txt", normalized_text |-> xtext,
        batch_context |-> [total_files_in_batch |-> 2, file_position |-> 2]]

\* C13: score_file submits nothing before the extraction has returned; the
\* payload and every submission carry the extracted text as normalized_text,
\* and the result returned has it as extracted_text; when the extraction
\* raises, score_file goes no further: no payload is built, no request is
\* submitted, no text takes the place of the missing one.
C13_ExtractThenScore ==
  /\ fpc = "extracting" =>
       /\ pc[Caller] = "idle"
       /\ payload[Caller] = NoPayload
       /\ request[Caller] = NoRequest
       /\ subs[Caller] = <<>>
  /\ fpc \in {"scoring", "returned"} =>
       /\ xpc = "returned"
       /\ payload[Caller].normalized_text = xtext
       /\ \A i \in 1..Len(subs[Caller]) :
            json_loads(subs[Caller][i].input[2].text).normalized_text = xtext
  /\ fpc = "returned" =>
       /\ pc[Caller] = "returned"
       /\ result[Caller].extracted_text = xtext
  /\ xpc = "raised" =>
       /\ fpc = "extracting"
       /\ xexc # NoExc

C13_Witness ==
  /\ bpc = "score_file"
  /\ fpc = "returned"
  /\ xtext # ""
  /\ Len(subs[Caller]) >= 1
  /\ json_loads(subs[Caller][1].input[2].text).normalized_text = xtext
  /\ result[Caller].extracted_text = xtext

\* C14: an input file that is a JSON payload is scored by score() once and
\* never goes through score_file; when that scoring raises, main prints the
\* error and exits non-zero.
C14_PayloadScoredOnce ==
  args.content.kind = "payload" =>
    /\ calls <= 1
    /\ cpc # "score_file"
    /\ fpc = "idle"
    /\ xpc = "idle"
    /\ (cpc = "exit" /\ pc[Caller] = "raised") =>
         /\ out.code = 1
         /\ out.stderr = exc[Caller].msg

\* C15: the records in the output folder and the images in the examples
\* folder are as many as the files processed with success: no record and no
\* saved image of a file is overwritten by another file's, also when two
\* files of the batch have the same name and are persisted within a second.
C15_OneRecordPerSuccess ==
  /\ Cardinality(outputs) = Len(results)
  /\ Cardinality(examples) = Len(results)

\* C16: every submission of a call carries the response-format hint, except
\* the one made right after the endpoint rejected the hint; the resubmission
\* after a content-tag flip carries it.
C16_EverySubmissionHinted ==
  \A p \in Procs :
    \A i \in 1..Len(subs[p]) :
      \/ subs[p][i].hint
      \/ i > 1 /\ IsHintRejection(Outcome(p, i - 1))

\* the belief changes only in the handler of a call's first submission
FlipsInHandlerOnly ==
  content_type' # content_type =>
    \E p \in Procs :
      /\ pc[p] = "except1"
      /\ pc'[p] = "create2"
      /\ Len(subs[p]) = 1
      /\ subs'[p] = subs[p]
      /\ content_type' = OtherTag(content_type)

\* C17: whatever the endpoint answers, a score() call makes at most two
\* submissions, the belief changes at most once in it (in the handler that
\* follows the first submission, which a call passes once), and a call that
\* has started ends returned or raised.
C17_BoundedRetry ==
  /\ [](\A p \in Procs : Len(subs[p]) <= 2)
  /\ [][FlipsInHandlerOnly]_vars
  /\ \A p \in Procs : (pc[p] = "create1") ~> (pc[p] \in {"returned", "raised"})

C17_Witness ==
  \E p \in Procs :
    /\ endpoint = "any"
    /\ pc[p] = "returned"
    /\ Len(subs[p]) = 2
    /\ TagOf(subs[p][2]) = OtherTag(TagOf(subs[p][1]))
    /\ content_type = TagOf(subs[p][2])

====
